---- MODULE Spec2Model ----
(***************************************************************************)
(* The data acquisition agent of kade-connect                              *)
(* (backend/agents/data_acquisition/agent.py): one process_image           *)
(* invocation, from the image path to the ProcessingResult.                *)
(*                                                                         *)
(* Text is a sequence of tokens.  A token is one whitespace character, one *)
(* punctuation character, or an atom of several characters (a word, a      *)
(* numeric literal, a quoted JSON string).  Numbers are fixed point:       *)
(* prices in tenths, confidences and quality scores in units of 1/One.     *)
(***************************************************************************)
EXTENDS Integers, Sequences, FiniteSets, TLC

(***************************************************************************)
(* Fixed-point scale.  One = 10 * 500 * 127 * 10, so that var/500,         *)
(* |mean-127|/127, the weights 0.7 and 0.3 and one-decimal confidences are *)
(* all exact.                                                              *)
(***************************************************************************)
One == 10 * 500 * 127 * 10
Tenth == One \div 10

Min(a, b) == IF a <= b THEN a ELSE b
Abs(a) == IF a < 0 THEN 0 - a ELSE a

\* a * b for a confidence a (a multiple of Tenth) and a quality score b (a
\* multiple of 10): exact, and within 32 bits.
Times(a, b) == (a \div Tenth) * (b \div 10)

(***************************************************************************)
(* Tokens                                                                  *)
(***************************************************************************)
Ws(s) == [k |-> "ws", s |-> s, n |-> 0]
P(s) == [k |-> "punct", s |-> s, n |-> 0]
W(s) == [k |-> "word", s |-> s, n |-> 0]
\* a numeric literal s of value n/10
N(s, n) == [k |-> "num", s |-> s, n |-> n]
\* a quoted JSON string whose content is the word s
Q(s) == [k |-> "qword", s |-> s, n |-> 0]
\* a quoted JSON string whose content is the numeric literal s
QN(s, n) == [k |-> "qnum", s |-> s, n |-> n]

SP == Ws(" ")
NL == Ws("\n")
Colon == P(":")
Comma == P(",")
LBrace == P("{")
RBrace == P("}")
JsonNull == W("null")

IsSpace(t) == t.k = "ws"

\* Python values: None is the empty sequence, a value v is <<v>>.
None == <<>>
Some(v) == <<v>>

(***************************************************************************)
(* str.strip()                                                             *)
(***************************************************************************)
RECURSIVE lstrip(_)
lstrip(text) ==
    IF text # <<>> /\ IsSpace(Head(text)) THEN lstrip(Tail(text)) ELSE text

RECURSIVE rstrip(_)
rstrip(text) ==
    IF text # <<>> /\ IsSpace(text[Len(text)])
    THEN rstrip(SubSeq(text, 1, Len(text) - 1))
    ELSE text

strip(text) == rstrip(lstrip(text))

startswith(text, t) == text # <<>> /\ Head(text) = t

(***************************************************************************)
(* json.loads, for one flat object of string, number and null values      *)
(***************************************************************************)
JsonTokens(text) == SelectSeq(text, LAMBDA t : ~IsSpace(t))

IsJsonString(t) == t.k \in {"qword", "qnum"}
IsJsonValue(t) == IsJsonString(t) \/ t.k = "num" \/ t = JsonNull

\* the members of the object: the tokens between the braces
JsonMembers(text) ==
    LET j == JsonTokens(text) IN SubSeq(j, 2, Len(j) - 1)

\* json.loads(text) returns (it raises JSONDecodeError otherwise)
JsonDecodes(text) ==
    LET j == JsonTokens(text)
        m == JsonMembers(text)
    IN  /\ Len(j) >= 2
        /\ j[1] = LBrace
        /\ j[Len(j)] = RBrace
        /\ \/ m = <<>>
           \/ /\ Len(m) % 4 = 3
              /\ \A i \in 1..Len(m) :
                    CASE i % 4 = 1 -> IsJsonString(m[i])
                      [] i % 4 = 2 -> m[i] = Colon
                      [] i % 4 = 3 -> IsJsonValue(m[i])
                      [] OTHER     -> m[i] = Comma

\* A Python value decoded from a JSON value token.
PyStr(text) == [t |-> "str", text |-> text, n |-> 0]
PyFloat(n) == [t |-> "float", text |-> <<>>, n |-> n]
PyNone == [t |-> "none", text |-> <<>>, n |-> 0]

JsonValue(t) ==
    CASE t.k = "qword" -> PyStr(<<W(t.s)>>)
      [] t.k = "qnum"  -> PyStr(<<N(t.s, t.n)>>)
      [] t.k = "num"   -> PyFloat(t.n)
      [] OTHER         -> PyNone

\* the dict json.loads returns: the last member of a key wins
JsonLoads(text) ==
    LET m == JsonMembers(text)
        keyAt == {i \in 1..Len(m) : i % 4 = 1}
        keys == {m[i].s : i \in keyAt}
        last(key) == CHOOSE i \in keyAt :
                        /\ m[i].s = key
                        /\ \A j \in keyAt : m[j].s = key => j <= i
    IN  [key \in keys |-> JsonValue(m[last(key) + 2])]

(***************************************************************************)
(* the ProductData constructor: pydantic validation of the keyword arguments.      *)
(* A str field takes only a str; a float field also takes a numeric str;   *)
(* an Optional field also takes None; unknown keys are ignored.            *)
(***************************************************************************)
IsStr(v) == v.t = "str"
IsFloat(v) == v.t = "float" \/ (v.t = "str" /\ Len(v.text) = 1 /\ v.text[1].k = "num")
AsFloat(v) == IF v.t = "float" THEN v.n ELSE v.text[1].n

OptionalStrFields == {"brand", "unit", "shop_name", "category"}

\* the ProductData constructor returns (it raises ValidationError otherwise)
Validates(data) ==
    /\ "product_name" \in DOMAIN data
    /\ IsStr(data["product_name"])
    /\ \A f \in OptionalStrFields \cap DOMAIN data :
          IsStr(data[f]) \/ data[f] = PyNone
    /\ "price" \in DOMAIN data => IsFloat(data["price"]) \/ data["price"] = PyNone
    /\ "confidence_score" \in DOMAIN data => IsFloat(data["confidence_score"])
    /\ "raw_text" \in DOMAIN data => IsStr(data["raw_text"])

OptStr(data, f) ==
    IF f \in DOMAIN data /\ data[f] # PyNone THEN Some(data[f].text) ELSE None

\* processing_timestamp and processing_time_ms are wall-clock readings and are
\* left out.
ProductData(data) ==
    [product_name     |-> data["product_name"].text,
     brand            |-> OptStr(data, "brand"),
     price            |-> IF "price" \in DOMAIN data /\ data["price"] # PyNone
                          THEN Some(AsFloat(data["price"])) ELSE None,
     unit             |-> OptStr(data, "unit"),
     shop_name        |-> OptStr(data, "shop_name"),
     category         |-> OptStr(data, "category"),
     confidence_score |-> IF "confidence_score" \in DOMAIN data
                          THEN AsFloat(data["confidence_score"]) * Tenth ELSE 0,
     raw_text         |-> IF "raw_text" \in DOMAIN data
                          THEN data["raw_text"].text ELSE <<>>,
     gps_latitude     |-> None,
     gps_longitude    |-> None]

(***************************************************************************)
(* re.search with re.IGNORECASE, on tokens: a label is one word token.     *)
(***************************************************************************)
ProductNameLabels == {"product_name", "product name", "Product Name", "PRODUCT_NAME"}
BrandLabels == {"brand", "Brand", "BRAND"}
PriceLabels == {"price", "Price", "PRICE"}
UnitLabels == {"unit", "Unit", "UNIT"}
ShopNameLabels == {"shop_name", "shop name", "Shop Name", "SHOP_NAME"}

IsLabel(t, labels) == t.k = "word" /\ t.s \in labels

\* IsSep with the colon left out of the character class
IsSepNoColon(t) == IsSpace(t)

\* [:\s]
IsSep(t) == t = Colon \/ IsSpace(t)

\* the last index of the run of separators that follows index i (i if none)
RECURSIVE SepEnd(_, _)
SepEnd(text, i) ==
    IF i < Len(text) /\ IsSep(text[i + 1]) THEN SepEnd(text, i + 1) ELSE i

\* the last index of the run of [^\n] that starts at index p
RECURSIVE LineEnd(_, _)
LineEnd(text, p) ==
    IF p < Len(text) /\ text[p + 1] # NL THEN LineEnd(text, p + 1) ELSE p

\* label[:\s]+([^\n]+) with the label at index i: the indexes where group 1
\* can start.  [:\s]+ is greedy and gives back one character at a time, so
\* the match starts group 1 at the largest of these.
GroupStarts(text, i) ==
    {p \in (i + 2)..(SepEnd(text, i) + 1) : p <= Len(text) /\ text[p] # NL}

Max(S) == CHOOSE x \in S : \A y \in S : y <= x

LineMatches(text, labels) ==
    {i \in 1..Len(text) : IsLabel(text[i], labels) /\ GroupStarts(text, i) # {}}

\* match.group(1) of the leftmost match
LineGroup(text, labels) ==
    LET i == CHOOSE x \in LineMatches(text, labels) :
                \A y \in LineMatches(text, labels) : x <= y
        p == Max(GroupStarts(text, i))
    IN  SubSeq(text, p, LineEnd(text, p))

\* price[:\s]+(\d+\.?\d*): group 1 is an unsigned numeric literal right
\* after the separators
PriceMatches(text) ==
    {i \in 1..Len(text) :
        /\ IsLabel(text[i], PriceLabels)
        /\ SepEnd(text, i) > i
        /\ SepEnd(text, i) < Len(text)
        /\ text[SepEnd(text, i) + 1].k = "num"
        /\ text[SepEnd(text, i) + 1].n >= 0}

PriceGroup(text) ==
    LET i == CHOOSE x \in PriceMatches(text) : \A y \in PriceMatches(text) : x <= y
    IN  text[SepEnd(text, i) + 1]

\* the dict the regex fallback builds (agent.py lines 57-85)
RegexFields(text) ==
    LET line(f, labels) ==
            IF LineMatches(text, labels) # {}
            THEN {<<f, PyStr(strip(LineGroup(text, labels)))>>} ELSE {}
        pairs ==
            line("product_name", ProductNameLabels)
            \cup line("brand", BrandLabels)
            \cup (IF PriceMatches(text) # {}
                  THEN {<<"price", PyFloat(PriceGroup(text).n)>>} ELSE {})
            \cup line("unit", UnitLabels)
            \cup line("shop_name", ShopNameLabels)
            \cup {<<"raw_text", PyStr(text)>>, <<"confidence_score", PyFloat(7)>>}
        keys == {pr[1] : pr \in pairs}
    IN  [f \in keys |-> (CHOOSE pr \in pairs : pr[1] = f)[2]]

(***************************************************************************)
(* ProductDataParser.parse                                                 *)
(***************************************************************************)
Text(s) == <<W(s)>>

\* UnknownProduct with the confidence of a regex parse
UnknownProductConfident(text) ==
    ProductData([product_name     |-> PyStr(Text("Unknown Product")),
                 raw_text         |-> PyStr(text),
                 confidence_score |-> PyFloat(7)])

\* lines 91-95
UnknownProduct(text) ==
    ProductData([product_name     |-> PyStr(Text("Unknown Product")),
                 raw_text         |-> PyStr(text),
                 confidence_score |-> PyFloat(1)])

\* The product parse returns, and the branch that returned it: "json" (line
\* 54), "regex" (line 87), or the except clause (line 91) entered from the
\* JSON branch ("json_except") or from the regex branch ("regex_except").
parse(text) ==
    IF startswith(strip(text), LBrace)
    THEN IF JsonDecodes(text)
         THEN LET data == JsonLoads(text)
              IN  IF Validates(data)
                  THEN [product |-> ProductData(data), branch |-> "json"]
                  ELSE [product |-> UnknownProduct(text), branch |-> "json_except"]
         ELSE [product |-> UnknownProduct(text), branch |-> "json_except"]
    ELSE LET product_data == RegexFields(text)
         IN  IF Validates(product_data)
             THEN [product |-> ProductData(product_data), branch |-> "regex"]
             ELSE [product |-> UnknownProduct(text), branch |-> "regex_except"]

(***************************************************************************)
(* Inputs                                                                  *)
(***************************************************************************)
MaxOcrLen == 2
MaxGpsLen == 2

\* A decoded pixel array, by the two statistics the agent reads from it.
LapVars == {0, 250, 1000}
Means == {0, 127, 255}
Arrays == [laplacian_var : LapVars, mean : Means]
MidGray == [laplacian_var |-> 250, mean |-> 127]

\* The file at image_path: whether open() can read it, what cv2.imread
\* decodes from it (None if it cannot), and what the enhancement chain makes
\* of that (None if one of its steps raises).
Images ==
    {[readable |-> r, original |-> None, sharpened |-> None] : r \in BOOLEAN}
    \cup {[readable |-> TRUE, original |-> Some(a), sharpened |-> None] : a \in Arrays}
    \cup {[readable |-> TRUE, original |-> Some(MidGray), sharpened |-> Some(a)] :
            a \in Arrays}

\* gps_coords: None, or a tuple; the router passes None or a pair.
Coords == <<7, 80, 0, 0>>
GpsInputs == {None} \cup {Some(SubSeq(Coords, 1, n)) : n \in 0..MaxGpsLen}

SeqsUpTo(S, n) == UNION {[1..m -> S] : m \in 0..n}

\* texts[0].description of the Vision API response
OcrTexts == SeqsUpTo({SP, NL, W("Rice")}, MaxOcrLen)

\* What the Vision API call does: "raises" (transport error), "error"
\* (response.error.message is set), or a response with these annotations.
VisionOutcomes ==
    {[kind |-> "raises", texts |-> <<>>], [kind |-> "error", texts |-> <<>>],
     [kind |-> "response", texts |-> <<>>]}
    \cup {[kind |-> "response", texts |-> <<t>>] : t \in OcrTexts}

\* Completions of the text-generation service.
Member(key, value) == <<Q(key), Colon, SP, value>>

RECURSIVE Join(_)
Join(members) ==
    IF members = <<>> THEN <<>>
    ELSE IF Len(members) = 1 THEN members[1]
    ELSE members[1] \o <<Comma>> \o Join(Tail(members))

Object(members) == <<LBrace>> \o Join(members) \o <<RBrace>>

Rice == Member("product_name", Q("Rice"))
Conf(value) == Member("confidence_score", value)

JsonObjects ==
    {Object(<<Rice, Member("price", N("450", 4500)), Conf(N("0.9", 9))>>),
     Object(<<Rice, Conf(N("1.5", 15))>>),
     Object(<<Rice, Conf(N("-0.5", -5))>>),
     Object(<<Rice, Conf(QN("0.9", 9))>>),
     Object(<<Rice, Conf(JsonNull)>>),
     Object(<<Rice, Member("raw_text", Q("echo")), Conf(N("1.0", 10))>>),
     Object(<<Rice, Member("price", Q("LKR")), Conf(N("0.9", 9))>>),
     Object(<<Rice, Member("price", JsonNull), Member("brand", JsonNull)>>),
     Object(<<Member("product_name", JsonNull), Conf(N("0.9", 9))>>),
     Object(<<Member("brand", Q("Anchor")), Conf(N("0.9", 9))>>),
     Object(<<Member("product_name", Q("Tea")), Rice>>),
     Object(<<Member("product_name", Q("Unknown Product")), Conf(N("0.9", 9))>>),
     Object(<<>>)}

Line(label, value) == <<W(label), Colon, SP, value, NL>>

LabelLines ==
    {Line("Product Name", W("Rice")), Line("Brand", W("Anchor")),
     Line("Price", N("450", 4500)), Line("unit", W("kg")),
     Line("shop_name", W("Keells"))}

\* the lines of a set of label lines, in the order of the prompt
RECURSIVE Lines(_, _)
Lines(order, chosen) ==
    IF order = <<>> THEN <<>>
    ELSE (IF Head(order) \in chosen THEN Head(order) ELSE <<>>)
         \o Lines(Tail(order), chosen)

LabelOrder ==
    <<Line("Product Name", W("Rice")), Line("Brand", W("Anchor")),
      Line("Price", N("450", 4500)), Line("unit", W("kg")),
      Line("shop_name", W("Keells"))>>

LabelTexts == {Lines(LabelOrder, chosen) : chosen \in SUBSET LabelLines}

LlmResponses ==
    JsonObjects
    \cup {<<NL>> \o o \o <<NL>> : o \in JsonObjects}
    \cup {SubSeq(o, 1, Len(o) - 1) : o \in JsonObjects}
    \cup {<<W("Here"), Colon, NL>> \o o : o \in JsonObjects}
    \cup LabelTexts
    \cup {<<LBrace, W("product_name"), Colon, SP, W("Rice"), RBrace>>,
          <<LBrace>> \o Line("Product Name", W("Rice")) \o <<RBrace>>,
          <<W("product name"), Colon, SP, SP>>,
          <<W("Product Name"), Colon, NL>>,
          <<W("Brand"), Colon, NL, W("Price"), Colon, SP, N("450", 4500)>>,
          <<W("PRODUCT_NAME"), SP, W("Rice"), NL, W("price"), Colon,
            N("-0.5", -5), NL, W("PRICE"), SP, N("3", 30)>>,
          <<W("Rice")>>}

\* What chain.invoke meets at the text-generation service: a completion, or
\* an exception.
LlmOutcomes ==
    {[kind |-> "raises", text |-> <<>>]}
    \cup {[kind |-> "completion", text |-> t] : t \in LlmResponses}

(***************************************************************************)
(* DataAcquisitionAgent                                                    *)
(***************************************************************************)
\* _preprocess_image: a failed decode raises ValueError inside the try, so
\* it and a failed enhancement step both end in the except clause, which
\* returns cv2.imread(image_path) again.
preprocess_image(image) ==
    IF image.original # None /\ image.sharpened # None
    THEN image.sharpened
    ELSE image.original

Half == One \div 2

\* assess_image_quality whose except clause returns 0.0
assess_image_quality_zero(processed) ==
    IF processed = None
    THEN 0
    ELSE LET array == processed[1]
             focus_score == Min(array.laplacian_var * (One \div 500), One)
             brightness_score == One - Abs(array.mean - 127) * (One \div 127)
             quality_score == (focus_score * 7) \div 10 + (brightness_score * 3) \div 10
         IN  Min(quality_score, One)

\* _assess_image_quality; cv2.Laplacian raises on None, and the except
\* clause returns 0.5.
assess_image_quality(processed) ==
    IF processed = None
    THEN Half
    ELSE LET array == processed[1]
             focus_score == Min(array.laplacian_var * (One \div 500), One)
             brightness_score == One - Abs(array.mean - 127) * (One \div 127)
             quality_score == (focus_score * 7) \div 10 + (brightness_score * 3) \div 10
         IN  Min(quality_score, One)

\* extract_text with an except clause that raises again
extract_text_reraise(outcome) ==
    IF outcome.kind = "response"
    THEN [raised |-> FALSE, failed |-> FALSE,
          text |-> IF outcome.texts # <<>> THEN outcome.texts[1] ELSE <<>>]
    ELSE [raised |-> TRUE, failed |-> TRUE, text |-> <<>>]

\* What meets _extract_text_with_vision_api: open() raises on an unreadable
\* file, before any call; a readable file reaches the Vision API.
OcrOutcomes(image) ==
    IF image.readable THEN VisionOutcomes ELSE {[kind |-> "unreadable", texts |-> <<>>]}

\* _extract_text_with_vision_api: the text it returns; whether it went
\* through its except clause (lines 235-237); whether it raises.
extract_text(outcome) ==
    IF outcome.kind = "response"
    THEN [raised |-> FALSE, failed |-> FALSE,
          text |-> IF outcome.texts # <<>> THEN outcome.texts[1] ELSE <<>>]
    ELSE [raised |-> FALSE, failed |-> TRUE, text |-> <<>>]

NoTextDetected ==
    ProductData([product_name     |-> PyStr(Text("No text detected")),
                 raw_text         |-> PyStr(<<>>),
                 confidence_score |-> PyFloat(0)])

\* ParsingFailed without the OCR text
ParsingFailedNoText(ocr_text) ==
    ProductData([product_name     |-> PyStr(Text("Parsing failed")),
                 raw_text         |-> PyStr(<<>>),
                 confidence_score |-> PyFloat(1)])

ParsingFailed(ocr_text) ==
    ProductData([product_name     |-> PyStr(Text("Parsing failed")),
                 raw_text         |-> PyStr(ocr_text),
                 confidence_score |-> PyFloat(1)])

\* IsBlank without the strip()
IsEmpty(ocr_text) == ocr_text = <<>>

\* _parse_with_llm asks the text-generation service only for OCR text that
\* is not blank
IsBlank(ocr_text) == strip(ocr_text) = <<>>

\* _parse_with_llm once the text-generation service has answered: the
\* product, and the branch that returned it
parse_with_llm(ocr_text, outcome) ==
    IF outcome.kind = "raises"
    THEN [product |-> ParsingFailed(ocr_text), branch |-> "llm_except"]
    ELSE LET parsed == parse(outcome.text)
         IN  [product |-> [parsed.product EXCEPT !.raw_text = ocr_text],
              branch  |-> parsed.branch]

\* adjust_confidence without the test of line 305
adjust_confidence_unguarded(product, quality) ==
    [product EXCEPT !.confidence_score = Times(@, quality)]

\* lines 304-306
adjust_confidence(product, quality) ==
    IF product.confidence_score > 0
    THEN [product EXCEPT !.confidence_score = Times(@, quality)]
    ELSE product

\* lines 308-311: the tuple is indexed at 0 and at 1 when it is truthy
GpsRaises(gps) == gps # None /\ gps[1] # <<>> /\ Len(gps[1]) < 2

add_gps(product, gps) ==
    IF gps # None /\ gps[1] # <<>>
    THEN [product EXCEPT !.gps_latitude = Some(gps[1][1]),
                         !.gps_longitude = Some(gps[1][2])]
    ELSE product

\* lines 315-320
SuccessResult(product, quality) ==
    [success |-> TRUE, product_data |-> Some(product), error_message |-> None,
     image_quality_score |-> Some(quality)]

\* FailureResult without the message
FailureResultNoMessage(message) ==
    [success |-> FALSE, product_data |-> None, error_message |-> None,
     image_quality_score |-> None]

\* lines 322-330, with str(e) the message
FailureResult(message) ==
    [success |-> FALSE, product_data |-> None, error_message |-> Some(message),
     image_quality_score |-> None]

\* validate_product_data with the threshold itself rejected
validate_product_data_strict(product) ==
    IF product.product_name = <<>> \/ strip(product.product_name) = <<>>
    THEN FALSE
    ELSE IF product.confidence_score <= 3 * Tenth
    THEN FALSE
    ELSE IF product.price # None
            /\ (product.price[1] < 1 * 10 \/ product.price[1] > 100000 * 10)
    THEN FALSE
    ELSE TRUE

\* validate_product_data (lines 332-349); a price is in tenths
validate_product_data(product) ==
    IF product.product_name = <<>> \/ strip(product.product_name) = <<>>
    THEN FALSE
    ELSE IF product.confidence_score < 3 * Tenth
    THEN FALSE
    ELSE IF product.price # None
            /\ (product.price[1] < 1 * 10 \/ product.price[1] > 100000 * 10)
    THEN FALSE
    ELSE TRUE

\* Products a caller hands to validate_product_data.
CandidateNames == {<<>>, <<SP>>, <<NL, SP>>, <<W("Tea")>>, <<SP, W("Tea"), NL>>}
CandidatePrices ==
    {None} \cup {Some(p) : p \in {0 - 10, 9, 10, 3000, 1000000, 1000001, 2000000}}
CandidateConfidences ==
    {0 - Tenth, 0, 2 * Tenth, 3 * Tenth - 1, 3 * Tenth, 5 * Tenth, One}

Candidates ==
    {[ProductData([product_name |-> PyStr(name)])
        EXCEPT !.price = price, !.confidence_score = confidence] :
        name \in CandidateNames, price \in CandidatePrices,
        confidence \in CandidateConfidences}

VARIABLES
    pc,               \* where process_image is
    image_path,       \* the file at image_path
    gps_coords,       \* the gps_coords argument
    processed_image,  \* None, or the array _preprocess_image returned
    quality_score,
    ocr_text,
    ocr_failed,       \* the Vision API stage ended in its except clause
    extracted,        \* None, or the product _parse_with_llm returned
    branch,           \* the branch of the structured extractor that returned
    llm_output,       \* None, or the completion the parser was given
    vision_calls,     \* calls of vision_client.text_detection
    llm_calls,        \* calls of the text-generation service
    result            \* None, or the ProcessingResult returned

pipeline_vars ==
    <<pc, image_path, gps_coords, processed_image, quality_score, ocr_text,
      ocr_failed, extracted, branch, llm_output, vision_calls, llm_calls, result>>

\* validate_product_data, called on its own by a caller
VARIABLES
    candidate,        \* None, or the product handed to validate_product_data
    acceptable        \* None, or what validate_product_data returned

validator_vars == <<candidate, acceptable>>

ValidatorIdle == candidate = None /\ acceptable = None

\* Invocations of process_image in flight on the one agent instance of the
\* router (router.py line 26)
NumInvocations == 2
Invocations == 1..NumInvocations

VARIABLES
    inv_pc,           \* where each invocation is
    inv_args,         \* None, or its arguments and the services' answers to it
    frames,           \* the local variables of process_image, by frame
    inv_result        \* None, or the ProcessingResult it returned

concurrent_vars == <<inv_pc, inv_args, frames, inv_result>>

EmptyFrame ==
    [processed_image |-> None, quality_score |-> 0, ocr_text |-> <<>>,
     product_data |-> None]

ConcurrentIdle ==
    /\ inv_pc = [i \in Invocations |-> "idle"]
    /\ inv_args = [i \in Invocations |-> None]
    /\ frames = [i \in Invocations |-> EmptyFrame]
    /\ inv_result = [i \in Invocations |-> None]

\* One request to POST /process-scout-image
VARIABLES
    scout_pc,         \* "idle", "validate", "save", "process", "responded"
    upload,           \* None, or the multipart upload and form fields
    scout_status,     \* the HTTP status of the response, 0 before it
    scout_result,     \* None, or the ProcessingResult of the agent
    scout_files,      \* files created under UPLOAD_DIR/scout_images
    scout_calls,      \* calls of data_agent.process_image
    background_tasks  \* save_processed_data tasks added

scout_vars == <<scout_pc, upload, scout_status, scout_result, scout_files,
                scout_calls, background_tasks>>

ScoutIdle ==
    /\ scout_pc = "idle"
    /\ upload = None
    /\ scout_status = 0
    /\ scout_result = None
    /\ scout_files = 0
    /\ scout_calls = 0
    /\ background_tasks = 0

\* One request to POST /batch-process
VARIABLES
    batch_pc,         \* "idle", "check", "loop", "call", "await", "responded"
    images,           \* the uploads of the request, by their filenames
    cursor,           \* the position of the for loop in images
    batch_results,    \* the list results
    batch_status,     \* the HTTP status of the response, 0 before it
    batch_files,      \* files created under UPLOAD_DIR/scout_images/batch
    batch_calls,      \* calls of data_agent.process_image
    running           \* the images whose process_image run is in flight

batch_vars == <<batch_pc, images, cursor, batch_results, batch_status,
                batch_files, batch_calls, running>>

BatchIdle ==
    /\ batch_pc = "idle"
    /\ images = <<>>
    /\ cursor = 0
    /\ batch_results = <<>>
    /\ batch_status = 0
    /\ batch_files = 0
    /\ batch_calls = 0
    /\ running = {}

router_vars == <<scout_vars, batch_vars>>

other_vars == <<validator_vars, concurrent_vars, router_vars>>

vars == <<pipeline_vars, other_vars>>

PipelineIdle ==
    /\ pc = "idle"
    /\ image_path = None
    /\ gps_coords = None
    /\ processed_image = None
    /\ quality_score = 0
    /\ ocr_text = <<>>
    /\ ocr_failed = FALSE
    /\ extracted = None
    /\ branch = "none"
    /\ llm_output = None
    /\ vision_calls = 0
    /\ llm_calls = 0
    /\ result = None

Init == PipelineIdle /\ ValidatorIdle /\ ConcurrentIdle /\ ScoutIdle /\ BatchIdle

\* process_image is called (line 285)
Call ==
    /\ pc = "idle"
    /\ \E image \in Images, gps \in GpsInputs :
          /\ image_path' = Some(image)
          /\ gps_coords' = gps
    /\ pc' = "preprocess"
    /\ UNCHANGED <<processed_image, quality_score, ocr_text, ocr_failed, extracted,
                   branch, llm_output, vision_calls, llm_calls, result>>
    /\ UNCHANGED other_vars

\* Preprocess with the text extraction moved ahead of the quality scoring
PreprocessThenOcr ==
    /\ pc = "preprocess"
    /\ processed_image' = preprocess_image(image_path[1])
    /\ pc' = "ocr"
    /\ UNCHANGED <<image_path, gps_coords, quality_score, ocr_text, ocr_failed,
                   extracted, branch, llm_output, vision_calls, llm_calls, result>>
    /\ UNCHANGED other_vars

\* line 291
Preprocess ==
    /\ pc = "preprocess"
    /\ processed_image' = preprocess_image(image_path[1])
    /\ pc' = "quality"
    /\ UNCHANGED <<image_path, gps_coords, quality_score, ocr_text, ocr_failed,
                   extracted, branch, llm_output, vision_calls, llm_calls, result>>
    /\ UNCHANGED other_vars

\* line 294
AssessQuality ==
    /\ pc = "quality"
    /\ quality_score' = assess_image_quality(processed_image)
    /\ pc' = "ocr"
    /\ UNCHANGED <<image_path, gps_coords, processed_image, ocr_text, ocr_failed,
                   extracted, branch, llm_output, vision_calls, llm_calls, result>>
    /\ UNCHANGED other_vars

\* ExtractText with one retry of a failed Vision API call
ExtractTextRetry ==
    /\ pc = "ocr"
    /\ \E outcome \in OcrOutcomes(image_path[1]) :
          LET returned == extract_text(outcome)
          IN  /\ vision_calls' = IF outcome.kind = "unreadable" THEN vision_calls
                                 ELSE vision_calls + 1
              /\ ocr_failed' = returned.failed
              /\ ocr_text' = returned.text
              /\ pc' = IF returned.failed /\ vision_calls = 0 /\ outcome.kind # "unreadable"
                       THEN "ocr" ELSE "llm"
    /\ UNCHANGED <<image_path, gps_coords, processed_image, quality_score,
                   extracted, branch, llm_output, llm_calls, result>>
    /\ UNCHANGED other_vars

\* line 298; whatever a stage raises, the except clause of process_image
\* (lines 322-330) turns into a result
ExtractText ==
    /\ pc = "ocr"
    /\ \E outcome \in OcrOutcomes(image_path[1]) :
          LET returned == extract_text(outcome)
          IN  /\ vision_calls' = IF outcome.kind = "unreadable" THEN vision_calls
                                 ELSE vision_calls + 1
              /\ ocr_failed' = returned.failed
              /\ IF returned.raised
                 THEN /\ result' = Some(FailureResult("Vision API error"))
                      /\ pc' = "done"
                      /\ UNCHANGED ocr_text
                 ELSE /\ ocr_text' = returned.text
                      /\ pc' = "llm"
                      /\ UNCHANGED result
    /\ UNCHANGED <<image_path, gps_coords, processed_image, quality_score,
                   extracted, branch, llm_output, llm_calls>>
    /\ UNCHANGED other_vars

\* line 302
ParseWithLlm ==
    /\ pc = "llm"
    /\ \/ /\ IsBlank(ocr_text)
          /\ extracted' = Some(NoTextDetected)
          /\ branch' = "no_text"
          /\ UNCHANGED <<llm_output, llm_calls>>
       \/ /\ ~IsBlank(ocr_text)
          /\ \E outcome \in LlmOutcomes :
                LET returned == parse_with_llm(ocr_text, outcome)
                IN  /\ extracted' = Some(returned.product)
                    /\ branch' = returned.branch
                    /\ llm_output' = IF outcome.kind = "raises" THEN None
                                     ELSE Some(outcome.text)
          /\ llm_calls' = llm_calls + 1
    /\ pc' = "assemble"
    /\ UNCHANGED <<image_path, gps_coords, processed_image, quality_score, ocr_text,
                   ocr_failed, vision_calls, result>>
    /\ UNCHANGED other_vars

\* lines 304-330: the except clause of process_image turns the IndexError of
\* a short gps tuple into a result
Assemble ==
    /\ pc = "assemble"
    /\ result' =
          IF GpsRaises(gps_coords)
          THEN Some(FailureResult("tuple index out of range"))
          ELSE Some(SuccessResult(
                  add_gps(adjust_confidence(extracted[1], quality_score), gps_coords),
                  quality_score))
    /\ pc' = "done"
    /\ UNCHANGED <<image_path, gps_coords, processed_image, quality_score, ocr_text,
                   ocr_failed, extracted, branch, llm_output, vision_calls, llm_calls>>
    /\ UNCHANGED other_vars

Next == Call \/ Preprocess \/ AssessQuality \/ ExtractText \/ ParseWithLlm \/ Assemble

Spec == Init /\ [][Next]_vars

(***************************************************************************)
(* validate_product_data on its own                                        *)
(***************************************************************************)
InitValidator ==
    /\ PipelineIdle
    /\ ConcurrentIdle
    /\ ScoutIdle
    /\ BatchIdle
    /\ candidate \in {Some(product) : product \in Candidates}
    /\ acceptable = None

Validate ==
    /\ candidate # None
    /\ acceptable = None
    /\ acceptable' = Some(validate_product_data(candidate[1]))
    /\ UNCHANGED <<candidate, pipeline_vars, concurrent_vars, router_vars>>

NextValidator == Validate

ValidatorSpec == InitValidator /\ [][NextValidator]_vars

(***************************************************************************)
(* Several process_image invocations on the shared agent instance.        *)
(* process_image keeps everything in local variables; __init__ (lines      *)
(* 103-147) sets the instance attributes and nothing writes them after.    *)
(* The steps of different invocations interleave freely here, which is     *)
(* more than the event loop allows: process_image has no await.            *)
(***************************************************************************)
\* every invocation on one frame, as if the locals were instance attributes
FrameShared(i) == 1

\* the frame that holds the local variables of invocation i
Frame(i) == i

ImageA == [readable |-> TRUE, original |-> Some(MidGray), sharpened |-> Some(MidGray)]
ImageB == [readable |-> TRUE, original |-> None, sharpened |-> None]

\* the arguments of an invocation and what the two services answer to it
ConcurrentInputs ==
    {[image |-> image,
      gps   |-> IF image = ImageA THEN Some(SubSeq(Coords, 1, 2)) ELSE None,
      ocr   |-> ocr,
      llm   |-> llm] :
        image \in {ImageA, ImageB},
        ocr \in {[kind |-> "error", texts |-> <<>>],
                 [kind |-> "response", texts |-> <<Text("Rice")>>]},
        llm \in {[kind |-> "raises", text |-> <<>>],
                 [kind |-> "completion",
                  text |-> Object(<<Rice, Member("price", N("450", 4500)),
                                    Conf(N("0.9", 9))>>)]}}

Local(i) == frames[Frame(i)]

Step(i, from, to, frame) ==
    /\ inv_pc[i] = from
    /\ inv_pc' = [inv_pc EXCEPT ![i] = to]
    /\ frames' = [frames EXCEPT ![Frame(i)] = frame]

ConcurrentCall(i) ==
    /\ inv_pc[i] = "idle"
    /\ \E input \in ConcurrentInputs : inv_args' = [inv_args EXCEPT ![i] = Some(input)]
    /\ inv_pc' = [inv_pc EXCEPT ![i] = "preprocess"]
    /\ UNCHANGED <<frames, inv_result, pipeline_vars, validator_vars, router_vars>>

\* line 291
ConcurrentPreprocess(i) ==
    /\ Step(i, "preprocess", "quality",
            [Local(i) EXCEPT !.processed_image = preprocess_image(inv_args[i][1].image)])
    /\ UNCHANGED <<inv_args, inv_result, pipeline_vars, validator_vars, router_vars>>

\* line 294
ConcurrentAssessQuality(i) ==
    /\ Step(i, "quality", "ocr",
            [Local(i) EXCEPT
                !.quality_score = assess_image_quality(Local(i).processed_image)])
    /\ UNCHANGED <<inv_args, inv_result, pipeline_vars, validator_vars, router_vars>>

\* line 298
ConcurrentExtractText(i) ==
    /\ Step(i, "ocr", "llm",
            [Local(i) EXCEPT !.ocr_text = extract_text(inv_args[i][1].ocr).text])
    /\ UNCHANGED <<inv_args, inv_result, pipeline_vars, validator_vars, router_vars>>

\* line 302
ConcurrentParseWithLlm(i) ==
    /\ Step(i, "llm", "adjust",
            [Local(i) EXCEPT !.product_data =
                IF IsBlank(Local(i).ocr_text)
                THEN Some(NoTextDetected)
                ELSE Some(parse_with_llm(Local(i).ocr_text, inv_args[i][1].llm).product)])
    /\ UNCHANGED <<inv_args, inv_result, pipeline_vars, validator_vars, router_vars>>

\* the scaling reads the quality another invocation left behind
ConcurrentAdjustForeign(i) ==
    /\ Step(i, "adjust", "return",
            [Local(i) EXCEPT !.product_data =
                Some(adjust_confidence(Local(i).product_data[1], frames[1].quality_score))])
    /\ UNCHANGED <<inv_args, inv_result, pipeline_vars, validator_vars, router_vars>>

\* lines 304-306: product_data is changed in place
ConcurrentAdjust(i) ==
    /\ Step(i, "adjust", "return",
            [Local(i) EXCEPT !.product_data =
                Some(adjust_confidence(Local(i).product_data[1], Local(i).quality_score))])
    /\ UNCHANGED <<inv_args, inv_result, pipeline_vars, validator_vars, router_vars>>

\* lines 308-330
ConcurrentReturn(i) ==
    /\ inv_pc[i] = "return"
    /\ inv_pc' = [inv_pc EXCEPT ![i] = "done"]
    /\ inv_result' = [inv_result EXCEPT ![i] =
          IF GpsRaises(inv_args[i][1].gps)
          THEN Some(FailureResult("tuple index out of range"))
          ELSE Some(SuccessResult(add_gps(Local(i).product_data[1], inv_args[i][1].gps),
                                  Local(i).quality_score))]
    /\ UNCHANGED <<inv_args, frames, pipeline_vars, validator_vars, router_vars>>

NextConcurrent ==
    \E i \in Invocations :
        \/ ConcurrentCall(i)
        \/ ConcurrentPreprocess(i)
        \/ ConcurrentAssessQuality(i)
        \/ ConcurrentExtractText(i)
        \/ ConcurrentParseWithLlm(i)
        \/ ConcurrentAdjust(i)
        \/ ConcurrentReturn(i)

ConcurrentSpec == Init /\ [][NextConcurrent]_vars

\* the result process_image returns for these arguments and answers when no
\* other invocation runs
RunAlone(input) ==
    LET quality == assess_image_quality(preprocess_image(input.image))
        text == extract_text(input.ocr).text
        product == IF IsBlank(text) THEN NoTextDetected
                   ELSE parse_with_llm(text, input.llm).product
    IN  IF GpsRaises(input.gps)
        THEN FailureResult("tuple index out of range")
        ELSE SuccessResult(add_gps(adjust_confidence(product, quality), input.gps),
                           quality)

(***************************************************************************)
(* router.py: POST /process-scout-image                                    *)
(***************************************************************************)
\* config.py line 75
MAX_FILE_SIZE == 50 * 1024 * 1024

\* config.py line 77, each extension as the dot and what follows it
ALLOWED_EXTENSIONS ==
    {<<".", "jpg">>, <<".", "jpeg">>, <<".", "png">>, <<".", "gif">>, <<".", "webp">>}

\* str.startswith on strings held as sequences of pieces
HasPrefix(s, prefix) ==
    Len(s) >= Len(prefix) /\ SubSeq(s, 1, Len(prefix)) = prefix

ImagePrefix == <<"image", "/">>

\* Path(name).suffix, the name held as its pieces between the dots: the part
\* from the last dot on, empty when there is no dot, when the only dot leads
\* the name or when the name ends with a dot
suffix(name) ==
    IF Len(name) >= 2 /\ name[Len(name)] # "" /\ ~(Len(name) = 2 /\ name[1] = "")
    THEN <<".", name[Len(name)]>>
    ELSE <<>>

UpperToLower == [JPG |-> "jpg", PNG |-> "png"]

\* str.lower on an extension
lower(ext) ==
    [n \in DOMAIN ext |->
        IF ext[n] \in DOMAIN UpperToLower THEN UpperToLower[ext[n]] ELSE ext[n]]

\* UploadFile.content_type: the part's Content-Type header, None without one
ContentTypes ==
    {None, Some(<<"image", "/", "jpeg">>), Some(<<"text", "/", "plain">>),
     Some(<<"image">>)}

Sizes == {0, MAX_FILE_SIZE, MAX_FILE_SIZE + 1}

Filenames ==
    {<<"photo", "jpg">>, <<"photo", "JPG">>, <<"photo", "exe">>, <<"photo">>,
     <<"", "png">>}

Uploads ==
    [content_type : ContentTypes, size : Sizes, filename : Filenames,
     gps_latitude : {None, Some(Coords[1])}, gps_longitude : {None, Some(Coords[2])}]

\* lines 88-91
ScoutGps(u) ==
    IF u.gps_latitude # None /\ u.gps_longitude # None
    THEN Some(<<u.gps_latitude[1], u.gps_longitude[1]>>)
    ELSE None

\* lines 54, 62 and 70: the three checks, in the order they are made
WrongContentType(u) == ~HasPrefix(u.content_type[1], ImagePrefix)
TooLarge(u) == u.size > MAX_FILE_SIZE
ExtensionNotAllowed(u) == lower(suffix(u.filename)) \notin ALLOWED_EXTENSIONS

ScoutRespond(status) ==
    /\ scout_pc' = "responded"
    /\ scout_status' = status

ScoutRequest ==
    /\ scout_pc = "idle"
    /\ upload' \in {Some(u) : u \in Uploads}
    /\ scout_pc' = "validate"
    /\ UNCHANGED <<scout_status, scout_result, scout_files, scout_calls,
                   background_tasks>>
    /\ UNCHANGED <<pipeline_vars, validator_vars, concurrent_vars, batch_vars>>

\* lines 52-74; None has no startswith, and the AttributeError is answered
\* by lines 121-126
ScoutValidate ==
    /\ scout_pc = "validate"
    /\ LET u == upload[1]
       IN  IF u.content_type = None
           THEN ScoutRespond(500)
           ELSE IF WrongContentType(u) \/ TooLarge(u) \/ ExtensionNotAllowed(u)
           THEN ScoutRespond(400)
           ELSE scout_pc' = "save" /\ UNCHANGED scout_status
    /\ UNCHANGED <<upload, scout_result, scout_files, scout_calls, background_tasks>>
    /\ UNCHANGED <<pipeline_vars, validator_vars, concurrent_vars, batch_vars>>

\* lines 76-86: mkdir, then open for writing (which creates the file), then write
ScoutSave ==
    /\ scout_pc = "save"
    /\ \E outcome \in {"saved", "mkdir fails", "write fails"} :
          /\ scout_files' = IF outcome = "mkdir fails" THEN scout_files
                            ELSE scout_files + 1
          /\ IF outcome = "saved"
             THEN scout_pc' = "process" /\ UNCHANGED scout_status
             ELSE ScoutRespond(500)
    /\ UNCHANGED <<upload, scout_result, scout_calls, background_tasks>>
    /\ UNCHANGED <<pipeline_vars, validator_vars, concurrent_vars, batch_vars>>

\* lines 88-117: the agent's answer is the one of a run on its own
ScoutProcess ==
    /\ scout_pc = "process"
    /\ \E input \in ConcurrentInputs :
          LET r == RunAlone([input EXCEPT !.gps = ScoutGps(upload[1])])
          IN  /\ scout_result' = Some(r)
              /\ background_tasks' =
                    IF r.success /\ r.product_data # None
                    THEN background_tasks + 1 ELSE background_tasks
    /\ scout_calls' = scout_calls + 1
    /\ ScoutRespond(200)
    /\ UNCHANGED <<upload, scout_files>>
    /\ UNCHANGED <<pipeline_vars, validator_vars, concurrent_vars, batch_vars>>

NextScout ==
    \/ ScoutRequest
    \/ ScoutValidate
    \/ ScoutSave
    \/ ScoutProcess

ScoutSpec == Init /\ [][NextScout]_vars

(***************************************************************************)
(* router.py: POST /batch-process                                          *)
(***************************************************************************)
\* the largest request tried
MaxBatch == 11

\* line 138
BatchLimit == 10

\* the requests: the k-th upload is named k
Batches == {[k \in 1..n |-> k] : n \in 0..MaxBatch}

\* line 164 passes the path only: no geolocation
BatchInput ==
    [image |-> ImageB, gps |-> None,
     ocr |-> [kind |-> "response", texts |-> <<Text("Rice")>>],
     llm |-> [kind |-> "raises", text |-> <<>>]]

\* lines 165-168
ResultEntry(name, r) == [filename |-> name, result |-> r]

\* lines 172-175
ErrorEntry(name, message) == [filename |-> name, error |-> message]

BatchRespond(status) ==
    /\ batch_pc' = "responded"
    /\ batch_status' = status

BatchRequest ==
    /\ batch_pc = "idle"
    /\ images' \in Batches
    /\ batch_pc' = "check"
    /\ UNCHANGED <<cursor, batch_results, batch_status, batch_files, batch_calls,
                   running>>
    /\ UNCHANGED <<pipeline_vars, validator_vars, concurrent_vars, scout_vars>>

\* lines 138-144
BatchCheck ==
    /\ batch_pc = "check"
    /\ IF Len(images) > BatchLimit
       THEN BatchRespond(400) /\ UNCHANGED cursor
       ELSE batch_pc' = "loop" /\ cursor' = 1 /\ UNCHANGED batch_status
    /\ UNCHANGED <<images, batch_results, batch_files, batch_calls, running>>
    /\ UNCHANGED <<pipeline_vars, validator_vars, concurrent_vars, scout_vars>>

\* a failed save leaves no entry
BatchSaveSkipsFailure ==
    /\ batch_pc = "loop"
    /\ cursor <= Len(images)
    /\ \E outcome \in {"saved", "mkdir fails", "write fails"} :
          /\ batch_files' = IF outcome = "mkdir fails" THEN batch_files
                            ELSE batch_files + 1
          /\ IF outcome = "saved"
             THEN batch_pc' = "call" /\ UNCHANGED cursor
             ELSE batch_pc' = "loop" /\ cursor' = cursor + 1
    /\ UNCHANGED <<images, batch_results, batch_status, batch_calls, running>>
    /\ UNCHANGED <<pipeline_vars, validator_vars, concurrent_vars, scout_vars>>

\* lines 146-161 and, when the save raises, 170-175: mkdir, then open for
\* writing (which creates the file), then write
BatchSave ==
    /\ batch_pc = "loop"
    /\ cursor <= Len(images)
    /\ \E outcome \in {"saved", "mkdir fails", "write fails"} :
          /\ batch_files' = IF outcome = "mkdir fails" THEN batch_files
                            ELSE batch_files + 1
          /\ IF outcome = "saved"
             THEN /\ batch_pc' = "call"
                  /\ UNCHANGED <<cursor, batch_results>>
             ELSE /\ batch_pc' = "loop"
                  /\ cursor' = cursor + 1
                  /\ batch_results' =
                        Append(batch_results, ErrorEntry(images[cursor], outcome))
    /\ UNCHANGED <<images, batch_status, batch_calls, running>>
    /\ UNCHANGED <<pipeline_vars, validator_vars, concurrent_vars, scout_vars>>

\* the run is started and the loop goes on without awaiting it
BatchStartRunDetached ==
    /\ batch_pc = "call"
    /\ running' = running \cup {cursor}
    /\ batch_calls' = batch_calls + 1
    /\ batch_pc' = "loop"
    /\ cursor' = cursor + 1
    /\ UNCHANGED <<images, batch_results, batch_status, batch_files>>
    /\ UNCHANGED <<pipeline_vars, validator_vars, concurrent_vars, scout_vars>>

\* line 164: the call, awaited
BatchStartRun ==
    /\ batch_pc = "call"
    /\ running' = running \cup {cursor}
    /\ batch_calls' = batch_calls + 1
    /\ batch_pc' = "await"
    /\ UNCHANGED <<images, cursor, batch_results, batch_status, batch_files>>
    /\ UNCHANGED <<pipeline_vars, validator_vars, concurrent_vars, scout_vars>>

\* lines 164-168: process_image returns, the entry is appended and the loop
\* moves on
BatchEndRun ==
    /\ batch_pc = "await"
    /\ running' = running \ {cursor}
    /\ batch_results' =
          Append(batch_results, ResultEntry(images[cursor], RunAlone(BatchInput)))
    /\ batch_pc' = "loop"
    /\ cursor' = cursor + 1
    /\ UNCHANGED <<images, batch_status, batch_files, batch_calls>>
    /\ UNCHANGED <<pipeline_vars, validator_vars, concurrent_vars, scout_vars>>

\* line 177
BatchReturn ==
    /\ batch_pc = "loop"
    /\ cursor > Len(images)
    /\ BatchRespond(200)
    /\ UNCHANGED <<images, cursor, batch_results, batch_files, batch_calls, running>>
    /\ UNCHANGED <<pipeline_vars, validator_vars, concurrent_vars, scout_vars>>

NextBatch ==
    \/ BatchRequest
    \/ BatchCheck
    \/ BatchSave
    \/ BatchStartRun
    \/ BatchEndRun
    \/ BatchReturn

BatchSpec == Init /\ [][NextBatch]_vars

(***************************************************************************)
(* Properties                                                              *)
(***************************************************************************)
Returned == pc = "done"
Extracted == pc \in {"assemble", "done"} /\ extracted # None

\* the image at image_path cannot be decoded: cv2.imread yields None
Undecodable == image_path # None /\ image_path[1].original = None

\* C1: when the image cannot be decoded, process_image returns success=false
\* with a non-empty error_message and no product_data, and neither OCR nor
\* structured extraction has run.
C1_DecodeFailureAborts ==
    (Returned /\ Undecodable) =>
        /\ ~result[1].success
        /\ result[1].error_message \notin {None, Some("")}
        /\ result[1].product_data = None
        /\ vision_calls = 0
        /\ llm_calls = 0
        /\ extracted = None

\* C2: process_image ends by returning a ProcessingResult, never by raising,
\* and the result carries product_data exactly when success is true and
\* error_message exactly when success is false.
C2_ResultWellFormed ==
    /\ pc \in {"idle", "preprocess", "quality", "ocr", "llm", "assemble", "done"}
    /\ Returned <=> result # None
    /\ Returned =>
          /\ result[1].success \in BOOLEAN
          /\ (result[1].product_data # None) <=> result[1].success
          /\ (result[1].error_message # None) <=> ~result[1].success

C2_Witness ==
    /\ Returned
    /\ ~result[1].success
    /\ result[1].error_message = Some("tuple index out of range")
    /\ result[1].product_data = None

\* C3: in every result with success=true, product_data.confidence_score is
\* in [0,1].
C3_ConfidenceInUnitInterval ==
    (Returned /\ result[1].success) =>
        /\ result[1].product_data[1].confidence_score >= 0
        /\ result[1].product_data[1].confidence_score <= One

\* C4: the confidence is multiplied by the image-quality score only when it
\* is > 0, a zero confidence stays 0, and the final confidence never exceeds
\* the confidence the structured extractor returned.
C4_ScalingNeverRaises ==
    (Returned /\ result[1].success) =>
        LET before == extracted[1].confidence_score
            final  == result[1].product_data[1].confidence_score
        IN  /\ final <= before
            /\ before = 0 => final = 0
            /\ before <= 0 => final = before
            /\ before > 0 => final * 10 = (before \div Tenth) * quality_score

C4_Witness ==
    /\ Returned
    /\ result[1].success
    /\ extracted[1].confidence_score > 0
    /\ quality_score \notin {0, One}
    /\ result[1].product_data[1].confidence_score < extracted[1].confidence_score

\* every character of the OCR text is whitespace
AllWhitespace(text) == \A i \in 1..Len(text) : text[i] \in {SP, NL}

\* C5: for empty or whitespace-only OCR text the text-generation service is
\* never invoked, and the structured extractor returns "No text detected"
\* with confidence 0.0.
C5_BlankTextSkipsLlm ==
    (Extracted /\ AllWhitespace(ocr_text)) =>
        /\ llm_calls = 0
        /\ llm_output = None
        /\ extracted[1].product_name = <<W("No text detected")>>
        /\ extracted[1].confidence_score = 0

C5_Witness ==
    /\ Returned
    /\ ocr_text # <<>>
    /\ AllWhitespace(ocr_text)
    /\ vision_calls = 1
    /\ llm_calls = 0
    /\ result[1].success
    /\ result[1].product_data[1].product_name = <<W("No text detected")>>

\* C6: on every path of the structured extractor the returned product's
\* raw_text is the original OCR text verbatim.
C6_RawTextIsOcrText ==
    Extracted => extracted[1].raw_text = ocr_text

\* the parser was given a completion
Parsed == Extracted /\ llm_output # None

\* strict JSON decoding of the completion into the schema succeeds
DecodesAsJson(text) == JsonDecodes(text) /\ Validates(JsonLoads(text))

\* C7: whenever strict JSON decoding of the completion fails, the parser
\* falls back to the regex extraction.
C7_JsonFailureFallsBack ==
    (Parsed /\ ~DecodesAsJson(llm_output[1])) => branch \in {"regex", "regex_except"}

\* the parser takes the regex-fallback path: the completion, stripped, does
\* not start with a brace
RegexPath == Parsed /\ (strip(llm_output[1]) = <<>> \/ Head(strip(llm_output[1])) # LBrace)

\* C8, as stated: on the regex-fallback path the product has confidence 0.7
\* whichever labelled fields matched.
C8_RegexAlwaysSeventy ==
    RegexPath => extracted[1].confidence_score = 7 * Tenth

\* match.group(1).strip() of a label's line, None without a match
Captured(text, labels) ==
    IF LineMatches(text, labels) = {} THEN None
    ELSE Some(strip(LineGroup(text, labels)))

\* the value a completion made of label lines gives a field
Written(chosen, label, value) ==
    IF Line(label, value) \in chosen THEN Some(<<value>>) ELSE None

\* C8, amended: on the regex-fallback path, a completion whose product name
\* label matched gives confidence 0.7, each matched field its captured value
\* and each unmatched field none; one whose product name label did not match
\* gives "Unknown Product" with confidence 0.1 and no other field.
C8_RegexFallback ==
    RegexPath =>
        LET text == llm_output[1]
            product == extracted[1]
        IN  /\ IF LineMatches(text, ProductNameLabels) # {}
               THEN /\ branch = "regex"
                    /\ product.confidence_score = 7 * Tenth
                    /\ Some(product.product_name) = Captured(text, ProductNameLabels)
                    /\ product.brand = Captured(text, BrandLabels)
                    /\ product.unit = Captured(text, UnitLabels)
                    /\ product.shop_name = Captured(text, ShopNameLabels)
                    /\ product.price = IF PriceMatches(text) = {} THEN None
                                       ELSE Some(PriceGroup(text).n)
               ELSE /\ branch = "regex_except"
                    /\ product.confidence_score = Tenth
                    /\ product.product_name = <<W("Unknown Product")>>
                    /\ product.brand = None /\ product.unit = None
                    /\ product.shop_name = None /\ product.price = None
            /\ product.category = None
            /\ \A chosen \in SUBSET LabelLines :
                  (text = Lines(LabelOrder, chosen)
                   /\ Line("Product Name", W("Rice")) \in chosen) =>
                      /\ product.confidence_score = 7 * Tenth
                      /\ product.product_name = <<W("Rice")>>
                      /\ product.brand = Written(chosen, "Brand", W("Anchor"))
                      /\ product.unit = Written(chosen, "unit", W("kg"))
                      /\ product.shop_name = Written(chosen, "shop_name", W("Keells"))
                      /\ product.price =
                            IF Line("Price", N("450", 4500)) \in chosen
                            THEN Some(4500) ELSE None

\* only some of the labels matched, the product name among them
C8_Witness ==
    /\ Returned
    /\ branch = "regex"
    /\ llm_output = Some(Line("Product Name", W("Rice")) \o Line("Price", N("450", 4500)))
    /\ extracted[1].product_name = <<W("Rice")>>
    /\ extracted[1].price = Some(4500)
    /\ extracted[1].brand = None
    /\ extracted[1].confidence_score = 7 * Tenth

\* the text-generation call threw
LlmRaised == Extracted /\ llm_calls = 1 /\ llm_output = None

\* the parser raised: in strict JSON decoding, or in building the product
\* from the regex fallback's fields
ParserRaised ==
    /\ Parsed
    /\ IF RegexPath
       THEN LineMatches(llm_output[1], ProductNameLabels) = {}
       ELSE ~DecodesAsJson(llm_output[1])

\* C9, as stated: on total failure, the call throwing or the parser raising,
\* the product is "Parsing failed" with confidence 0.1 and the OCR text.
C9_FailureIsParsingFailed ==
    (LlmRaised \/ ParserRaised) =>
        /\ extracted[1].product_name = <<W("Parsing failed")>>
        /\ extracted[1].confidence_score = Tenth
        /\ extracted[1].raw_text = ocr_text

\* C9, amended: on total failure the product has confidence 0.1 and the OCR
\* text as raw_text; its name is "Parsing failed" when the text-generation
\* call threw and "Unknown Product" when the parser raised.
C9_FailureRecord ==
    (LlmRaised \/ ParserRaised) =>
        /\ extracted[1].product_name =
              IF LlmRaised THEN <<W("Parsing failed")>> ELSE <<W("Unknown Product")>>
        /\ extracted[1].confidence_score = Tenth
        /\ extracted[1].raw_text = ocr_text
        /\ ocr_text # <<>>
        /\ extracted[1].brand = None /\ extracted[1].price = None
        /\ branch = IF LlmRaised THEN "llm_except"
                    ELSE IF RegexPath THEN "regex_except" ELSE "json_except"

C9_Witness ==
    /\ Returned
    /\ LlmRaised
    /\ extracted[1].product_name = <<W("Parsing failed")>>
    /\ extracted[1].raw_text = ocr_text
    /\ Len(ocr_text) = MaxOcrLen

\* C10: a failure of the OCR service or of the text-generation service never
\* makes process_image return success=false: the OCR failure gives empty
\* text, the text-generation failure the low-confidence record, and the
\* invocation returns success=true with a product unless something else (the
\* gps tuple) raised.
C10_ServiceFailureDegrades ==
    (Returned /\ (ocr_failed \/ LlmRaised)) =>
        /\ ocr_failed => ocr_text = <<>> /\ branch = "no_text"
        /\ LlmRaised => extracted[1].confidence_score = Tenth
        /\ extracted # None
        /\ result[1].success <=> ~GpsRaises(gps_coords)
        /\ result[1].success =>
              /\ result[1].product_data # None
              /\ result[1].product_data[1].product_name = extracted[1].product_name

C10_Witness ==
    /\ Returned
    /\ ocr_failed
    /\ vision_calls = 1
    /\ result[1].success
    /\ result[1].product_data[1].product_name = <<W("No text detected")>>

\* the name has a character that is not whitespace
HasVisibleCharacter(name) == \E i \in 1..Len(name) : name[i].k # "ws"

\* C11: validate_product_data returns true exactly when product_name is
\* non-empty after trimming, confidence_score >= 0.3, and price is absent or
\* within [1, 100000]; price=200000, an empty name and confidence 0.2 are
\* rejected, and "Tea" at 0.5 and 300 is accepted.
C11_ValidatorGate ==
    acceptable # None =>
        LET product == candidate[1]
        IN  /\ acceptable[1] <=>
                  /\ HasVisibleCharacter(product.product_name)
                  /\ product.confidence_score * 10 >= 3 * One
                  /\ \/ product.price = None
                     \/ /\ product.price[1] >= 10
                        /\ product.price[1] <= 1000000
            /\ product.price = Some(2000000) => ~acceptable[1]
            /\ product.product_name = <<>> => ~acceptable[1]
            /\ product.confidence_score = 2 * Tenth => ~acceptable[1]
            /\ (/\ product.product_name = <<W("Tea")>>
                /\ product.confidence_score = 5 * Tenth
                /\ product.price = Some(3000)) => acceptable[1]

\* accepted at the threshold and at the price cap
C11_Witness ==
    /\ acceptable = Some(TRUE)
    /\ candidate[1].confidence_score = 3 * Tenth
    /\ candidate[1].price = Some(1000000)

QualityScored == pc \in {"ocr", "llm", "assemble", "done"}

\* C12: the Quality Assessor returns a score in [0,1] for every image.
C12_QualityInUnitInterval ==
    QualityScored => quality_score >= 0 /\ quality_score <= One

StageRank(stage) ==
    CASE stage = "idle"       -> 0
      [] stage = "preprocess" -> 1
      [] stage = "quality"    -> 2
      [] stage = "ocr"        -> 3
      [] stage = "llm"        -> 4
      [] stage = "assemble"   -> 5
      [] stage = "done"       -> 6

\* C13: within one invocation the stages run in the order preprocessing,
\* quality scoring, text extraction, structured extraction, result assembly:
\* every step ends one stage and starts the next, and what a stage produces
\* is written during that stage only, so no stage reads what a later one
\* writes.
C13_StagesInOrder ==
    [][/\ StageRank(pc') = StageRank(pc) + 1
       /\ processed_image' # processed_image => pc = "preprocess"
       /\ quality_score' # quality_score => pc = "quality"
       /\ (ocr_text' # ocr_text \/ vision_calls' # vision_calls) => pc = "ocr"
       /\ (extracted' # extracted \/ llm_calls' # llm_calls) => pc = "llm"
       /\ result' # result => pc = "assemble"]_vars

\* all five stages have run, each on the output of the one before
C13_Witness ==
    /\ Returned
    /\ processed_image # None
    /\ quality_score = assess_image_quality(processed_image)
    /\ vision_calls = 1
    /\ llm_calls = 1
    /\ extracted[1].raw_text = ocr_text
    /\ result[1].success
    /\ result[1].image_quality_score = Some(quality_score)

\* C14: within one invocation the OCR service and the text-generation
\* service are each called at most once; a failed call is not retried but
\* replaced by its degraded result.
C14_NoRetry ==
    /\ vision_calls <= 1
    /\ llm_calls <= 1
    /\ (pc \in {"llm", "assemble", "done"} /\ ocr_failed) =>
          /\ ocr_text = <<>>
          /\ vision_calls = IF image_path[1].readable THEN 1 ELSE 0
    /\ LlmRaised =>
          /\ llm_calls = 1
          /\ extracted[1].confidence_score = Tenth
          /\ extracted[1].product_name = <<W("Parsing failed")>>

\* the OCR call failed, and then the text-generation stage ran without a call
C14_Witness ==
    /\ Returned
    /\ ocr_failed
    /\ vision_calls = 1
    /\ llm_calls = 0
    /\ branch = "no_text"

\* C18: when the quality computation fails (it is handed no image), the
\* Quality Assessor returns 0.5, and the failure does not by itself make
\* process_image return success=false.
C18_QualityFailureIsNeutral ==
    (QualityScored /\ processed_image = None) =>
        /\ quality_score = Half
        /\ Returned =>
              /\ result[1].success <=> ~GpsRaises(gps_coords)
              /\ result[1].success => result[1].image_quality_score = Some(Half)

C18_Witness ==
    /\ Returned
    /\ processed_image = None
    /\ image_path[1].readable
    /\ quality_score * 2 = One
    /\ result[1].success
    /\ result[1].image_quality_score = Some(quality_score)

\* C15: two runs of process_image on the same image, with the same OCR and
\* text-generation responses and the same geolocation, return the same
\* success flag, image_quality_score and product fields.
C15_Deterministic ==
    \A i, j \in Invocations :
        (inv_pc[i] = "done" /\ inv_pc[j] = "done" /\ inv_args[i] = inv_args[j]) =>
            /\ inv_result[i][1].success = inv_result[j][1].success
            /\ inv_result[i][1].image_quality_score = inv_result[j][1].image_quality_score
            /\ inv_result[i][1].product_data = inv_result[j][1].product_data

\* two runs on the same inputs have returned a scaled product
C15_Witness ==
    /\ inv_pc[1] = "done"
    /\ inv_pc[2] = "done"
    /\ inv_args[1] = inv_args[2]
    /\ inv_result[1][1].success
    /\ inv_result[1][1].product_data[1].confidence_score \notin {0, Tenth, 9 * Tenth}
    /\ inv_result[1][1].product_data[1].product_name = <<W("Rice")>>
    /\ inv_result[2][1].product_data[1].price = Some(4500)

\* C16: with several invocations in flight on the shared agent, under every
\* interleaving each invocation returns what it returns when run alone.
C16_Isolated ==
    \A i \in Invocations :
        inv_pc[i] = "done" => inv_result[i] = Some(RunAlone(inv_args[i][1]))

\* one invocation has returned while another, on other inputs, is in flight
C16_Witness ==
    /\ inv_pc[1] = "done"
    /\ inv_pc[2] = "adjust"
    /\ inv_args[1][1].image # inv_args[2][1].image
    /\ inv_result[1][1].success
    /\ frames[2].product_data # None
    /\ inv_result[1][1].product_data[1].product_name # frames[2].product_data[1].product_name

\* the upload is one the endpoint is to refuse
Refusable(u) ==
    \/ u.content_type = None
    \/ WrongContentType(u)
    \/ TooLarge(u)
    \/ ExtensionNotAllowed(u)

\* C19: an upload whose content type does not start with image/, whose size
\* exceeds MAX_FILE_SIZE or whose extension is not allowed is answered with
\* HTTP 400, with no file written, the agent not invoked and no background
\* task scheduled.
C19_InvalidUploadIs400 ==
    (scout_pc = "responded" /\ Refusable(upload[1])) =>
        /\ scout_status = 400
        /\ scout_files = 0
        /\ scout_calls = 0
        /\ background_tasks = 0

\* C17: within one batch request the images are processed one after the other
\* in submission order: while the run of an image is in flight it is the only
\* one, every earlier image has its entry and no later image has been started.
C17_Sequential ==
    /\ Cardinality(running) <= 1
    /\ \A k \in running : k = cursor /\ Len(batch_results) = k - 1

\* the run of the second image is in flight after the first returned a result
C17_Witness ==
    /\ batch_pc = "await"
    /\ running = {2}
    /\ Len(batch_results) = 1
    /\ "result" \in DOMAIN batch_results[1]
    /\ Len(images) >= 3

IsEntry(entry, name) ==
    /\ entry.filename = name
    /\ \/ DOMAIN entry = {"filename", "result"}
       \/ DOMAIN entry = {"filename", "error"}

\* C20: a batch of at most 10 images is answered with exactly one entry per
\* image, in submission order, each a result or an error, whatever failed on
\* the way; a batch of more than 10 is answered with HTTP 400 before any image
\* is saved or processed.
C20_OneEntryPerImage ==
    batch_pc = "responded" =>
        IF Len(images) <= 10
        THEN /\ batch_status = 200
             /\ Len(batch_results) = Len(images)
             /\ \A k \in 1..Len(images) : IsEntry(batch_results[k], images[k])
        ELSE /\ batch_status = 400
             /\ batch_results = <<>>
             /\ batch_files = 0
             /\ batch_calls = 0

\* a full batch answered: the first save failed, the later images went on
C20_Witness ==
    /\ batch_pc = "responded"
    /\ Len(images) = 10
    /\ Len(batch_results) = 10
    /\ "error" \in DOMAIN batch_results[1]
    /\ "result" \in DOMAIN batch_results[2]
    /\ "error" \in DOMAIN batch_results[9]
    /\ "result" \in DOMAIN batch_results[10]

Placeholders ==
    {<<W("No text detected")>>, <<W("Parsing failed")>>, <<W("Unknown Product")>>}

ReturnedProduct == Returned /\ result[1].success

\* C21, as stated: every returned product whose name is one of the
\* placeholders is rejected by validate_product_data, its confidence below 0.3.
C21_PlaceholderNameRejected ==
    (ReturnedProduct /\ result[1].product_data[1].product_name \in Placeholders) =>
        /\ ~validate_product_data(result[1].product_data[1])
        /\ result[1].product_data[1].confidence_score < 3 * Tenth

\* the product came from the blank-text short-circuit or from an except clause
Degraded == ReturnedProduct /\ (llm_calls = 0 \/ LlmRaised \/ ParserRaised)

\* C21: every product that the short-circuit or an except clause made carries
\* a placeholder name and confidence 0.0 or 0.1 scaled by the image quality,
\* and validate_product_data rejects it for every image-quality score.
C21_DegradedRejected ==
    Degraded =>
        /\ result[1].product_data[1].product_name \in Placeholders
        /\ result[1].product_data[1].confidence_score =
              IF llm_calls = 0 THEN 0 ELSE Times(Tenth, quality_score)
        /\ result[1].product_data[1].confidence_score < 3 * Tenth
        /\ ~validate_product_data(result[1].product_data[1])

\* the parser's placeholder on the best image there is: 0.1 stays 0.1
C21_Witness ==
    /\ Degraded
    /\ ParserRaised
    /\ quality_score = One
    /\ result[1].product_data[1].product_name = <<W("Unknown Product")>>
    /\ result[1].product_data[1].confidence_score = Tenth
    /\ ~validate_product_data(result[1].product_data[1])

====
